---- MODULE Spec2Model ----
(***************************************************************************)
(* A model of the clustering and colour core of auto-palette-ts:           *)
(*   - DBSCAN            (src/src/math/clustering/dbscan/index.ts)         *)
(*   - Kmeans            (src/src/math/clustering/kmeans/index.ts)         *)
(*   - KmeansExtractor   (src/unnamed/part_001)                            *)
(*   - RGB packed colour (src/unnamed/part_000)                            *)
(* Each component has its own variables, initial predicate, next-state     *)
(* relation and specification; the variables of the other components stay  *)
(* at their idle values.                                                   *)
(***************************************************************************)
EXTENDS Integers, Sequences, FiniteSets, TLC

VARIABLES
  \* ---- DBSCAN ----
  minPoints,    \* constructor argument
  radius,       \* constructor argument
  points,       \* fit's argument: a sequence of 1-D points
  nnsDescending,\* the (stable) order in which the neighbour search lists its hits
  dbPc,         \* where the DBSCAN object / fit call is
  label,        \* fit: the next cluster id
  labels,       \* fit: the label of every point
  clusters,     \* fit: the Map label -> MutableCluster, in insertion order
  index,        \* fit: the index forEach is at (1-based)
  queue,        \* buildCluster: the ArrayQueue of neighbours (indices)
  bcPoints,     \* buildCluster: the Set of points of the cluster being built
  starts,       \* history: for every cluster stored, the index its callback ran for
  \* ---- Kmeans ----
  kmK,             \* constructor argument k (a JavaScript number)
  kmMaxIterations, \* constructor argument maxIterations (a JavaScript number)
  kmTolerance,     \* constructor argument tolerance (a JavaScript number)
  kmPoints,        \* fit's argument: a sequence of points
  kmPc,            \* where the Kmeans object / fit call is
  kmClusters,      \* fit: the KmeansCluster array
  kmI,             \* fit: the loop counter i
  kmSeeded,        \* whether fit called centerInitializer.initialize
  kmIterateCalls,  \* how many times fit called iterate
  kmDifferences,   \* the differences updateCentroid returned in the last iterate
  \* ---- RGB ----
  rgbColor,        \* the RGBColor given to encode
  rgbPacked,       \* the PackedColor encode returned
  rgbDecoded,      \* the RGBColor decode returned for it
  rgbPc,           \* where the encode / decode round is
  \* ---- KmeansExtractor ----
  exData,          \* imageData.data: the RGBA bytes
  exWidth,         \* imageData.width
  exHeight,        \* imageData.height
  exMaxColors,     \* extract's argument maxColors
  exMaxIterations, \* constructor argument maxIterations
  exMinDifference, \* constructor argument minDifference (the tolerance)
  exPc,            \* where the extract call is
  exPixels,        \* extract: the feature vectors pushed
  exSources,       \* for every feature vector, the number of its source pixel
  exClusters,      \* extract: the clusters of the k-means
  exI,             \* extract: the k-means loop counter i
  exClassified,    \* whether extract called the k-means
  exResult,        \* the swatches extract returned
  \* ---- Color and VividThemeStrategy ----
  vvLab,             \* the l, a, b given to the Color constructor (JavaScript numbers)
  vvColor,           \* the Color's fields l, a, b
  vvNormalizeClamps, \* whether normalize limits its result to [0, 1]
  vvScoreSq,         \* score(swatch), squared, in units of 1 / MAX_CHROMA^2
  vvPasses,          \* filter(swatch)
  vvPc,              \* where the colour / the strategy calls are
  \* ---- FarthestPointSampling and RandomSampling ----
  smKind,       \* which sampling strategy: "fps" or "random"
  smPoints,     \* sample's argument: the data points
  smN,          \* sample's argument n
  smSizeFirst,  \* whether n >= size is tested before n <= 0
  smSelected,   \* the indices sampled so far, in the order they were taken
  smPc,         \* where the sample call is
  \* ---- KmeansPlusPlusInitializer ----
  inPoints,     \* initialize's argument: the points
  inK,          \* initialize's argument k (a JavaScript number)
  inCenters,    \* the centres chosen so far
  inClusters,   \* Kmeans.fit: the clusters made of the centres returned
  inPc          \* where the initialize call is

dbVars == <<minPoints, radius, points, nnsDescending, dbPc, label, labels,
            clusters, index, queue, bcPoints, starts>>

kmVars == <<kmK, kmMaxIterations, kmTolerance, kmPoints, kmPc, kmClusters,
            kmI, kmSeeded, kmIterateCalls, kmDifferences>>

rgbVars == <<rgbColor, rgbPacked, rgbDecoded, rgbPc>>

exVars == <<exData, exWidth, exHeight, exMaxColors, exMaxIterations,
            exMinDifference, exPc, exPixels, exSources, exClusters, exI,
            exClassified, exResult>>

vvVars == <<vvLab, vvColor, vvNormalizeClamps, vvScoreSq, vvPasses, vvPc>>

smVars == <<smKind, smPoints, smN, smSizeFirst, smSelected, smPc>>

inVars == <<inPoints, inK, inCenters, inClusters, inPc>>

vars == <<dbVars, kmVars, rgbVars, exVars, vvVars, smVars, inVars>>

(***************************************************************************)
(* Bounds of the model.                                                    *)
(***************************************************************************)
MaxCoord == 4       \* 1-D coordinates are 0..MaxCoord
MaxPoints == 7      \* longest point list (lists in non-decreasing order)
MaxShuffled == 3    \* longest point list in arbitrary order
MaxMinPoints == 4   \* largest minPoints
MaxRadius == 1      \* largest radius
MaxKmCoord == 3     \* k-means: 1-D coordinates are 0..MaxKmCoord
MaxKmShuffled == 2  \* longest k-means point list in arbitrary order
MaxKmPoints == 4    \* k-means: longest point list
MaxK == 3           \* k-means: largest k
MaxIterations == 2  \* k-means: largest maxIterations
MaxToleranceQ == 2  \* k-means: largest tolerance, in quarters
EdgeSpan == 1       \* RGB: channel inputs lie within EdgeSpan of 0, 128 and 255
MaxPixels == 4      \* extractor: most pixels of an image
LabSpan == 1        \* Color: a and b inputs lie within LabSpan of -128 and of 128
MaxSmCoord == 2     \* sampling: 1-D coordinates are 0..MaxSmCoord
MaxSmPoints == 4    \* sampling: longest point list

(***************************************************************************)
(* JavaScript numbers, as far as the constructors tell them apart: NaN,    *)
(* the infinities, and finite numbers in quarters (q stands for q / 4).    *)
(***************************************************************************)
Finite(q) == [kind |-> "finite", q |-> q]
NaN == [kind |-> "NaN", q |-> 0]
Infinity == [kind |-> "Infinity", q |-> 0]
NegInfinity == [kind |-> "-Infinity", q |-> 0]

\* Number.isInteger(x)
isInteger(x) == x.kind = "finite" /\ x.q % 4 = 0

\* Number.isFinite(x)
isFinite(x) == x.kind = "finite"

\* x <= 0 and x < 0 on JavaScript numbers (a comparison with NaN is false)
leqZero(x) == x.kind = "-Infinity" \/ (x.kind = "finite" /\ x.q <= 0)
ltZero(x) == x.kind = "-Infinity" \/ (x.kind = "finite" /\ x.q < 0)

\* the value of an integer-valued number
intOf(x) == x.q \div 4

(***************************************************************************)
(* The idle values of each component's variables: what they hold while     *)
(* another component runs.                                                 *)
(***************************************************************************)
DBIdle ==
  /\ minPoints = 1 /\ radius = 0 /\ points = << >> /\ nnsDescending = FALSE
  /\ dbPc = "idle" /\ label = 0 /\ labels = << >> /\ clusters = << >>
  /\ index = 0 /\ queue = << >> /\ bcPoints = {} /\ starts = << >>

KMIdle ==
  /\ kmK = NaN /\ kmMaxIterations = NaN /\ kmTolerance = NaN
  /\ kmPoints = << >> /\ kmPc = "idle" /\ kmClusters = << >> /\ kmI = 0
  /\ kmSeeded = FALSE /\ kmIterateCalls = 0 /\ kmDifferences = << >>

NoColor == [r |-> 0, g |-> 0, b |-> 0, opacity |-> 0]
NoWord == [hi |-> 0, lo |-> 0]

RGBIdle ==
  /\ rgbColor = NoColor /\ rgbPacked = NoWord /\ rgbDecoded = NoColor
  /\ rgbPc = "idle"

EXIdle ==
  /\ exData = << >> /\ exWidth = 0 /\ exHeight = 0 /\ exMaxColors = 0
  /\ exMaxIterations = 0 /\ exMinDifference = NaN /\ exPc = "idle"
  /\ exPixels = << >> /\ exSources = << >> /\ exClusters = << >>
  /\ exI = 0 /\ exClassified = FALSE /\ exResult = << >>

NoLab == [l |-> 0, a |-> 0, b |-> 0]

VVIdle ==
  /\ vvLab = NoLab /\ vvColor = NoLab /\ vvNormalizeClamps = FALSE
  /\ vvScoreSq = 0 /\ vvPasses = FALSE /\ vvPc = "idle"

SMIdle ==
  /\ smKind = "idle" /\ smPoints = << >> /\ smN = 0 /\ smSizeFirst = FALSE
  /\ smSelected = << >> /\ smPc = "idle"

INIdle ==
  /\ inPoints = << >> /\ inK = NaN /\ inCenters = << >> /\ inClusters = << >>
  /\ inPc = "idle"

(***************************************************************************)
(* Helpers.                                                                *)
(***************************************************************************)
Abs(x) == IF x < 0 THEN -x ELSE x

RECURSIVE SortedSeqs(_)
\* the non-decreasing sequences of length n over 0..MaxCoord
SortedSeqs(n) ==
  IF n = 0 THEN {<< >>}
  ELSE UNION { { Append(s, c) :
                   c \in (IF Len(s) = 0 THEN 0 ELSE s[Len(s)])..MaxCoord } :
               s \in SortedSeqs(n - 1) }

RECURSIVE AllSeqs(_)
\* all sequences of length n over 0..MaxCoord
AllSeqs(n) ==
  IF n = 0 THEN {<< >>}
  ELSE { Append(s, c) : s \in AllSeqs(n - 1), c \in 0..MaxCoord }

PointLists ==
  UNION { SortedSeqs(n) : n \in 0..MaxPoints }
    \cup UNION { AllSeqs(n) : n \in 0..MaxShuffled }

Reverse(s) == [i \in 1..Len(s) |-> s[Len(s) + 1 - i]]

(***************************************************************************)
(* DBSCAN                                                                  *)
(***************************************************************************)

\* The labels that are not cluster ids
NOISE == -1
MARKED == -2
UNKNOWN == -3

\* euclidean(point1, point2) on 1-D integer points: sqrt(delta * delta)
euclidean(point1, point2) == Abs(point2 - point1)

\* nns.searchRadius(query, radius): the indices of the points whose distance
\* to the query is at most the radius, in a stable order.
searchRadius(pts, query, r, descending) ==
  LET hits == SelectSeq([i \in 1..Len(pts) |-> i],
                        LAMBDA i : euclidean(pts[i], query) <= r)
  IN IF descending THEN Reverse(hits) ELSE hits

\* buildCluster, lines 79-84: mark the UNKNOWN neighbours
markNeighbors(lbls, neighbors) ==
  [i \in 1..Len(lbls) |->
     IF lbls[i] = UNKNOWN /\ (\E j \in 1..Len(neighbors) : neighbors[j] = i)
     THEN MARKED ELSE lbls[i]]

\* a plausible slip: every point that was met before is skipped, the
\* MARKED ones included
alreadyAssigned_NotUnknown(lbl) == lbl # UNKNOWN

\* buildCluster, line 95: a neighbour that already belongs to a cluster
alreadyAssigned(lbl) == lbl > 0

\* a plausible slip: the core test before expanding is left out
notCore_NeverChecked(neighbors) == FALSE

\* buildCluster, line 109: a neighbourhood too small to be a core
notCore(neighbors) == Len(neighbors) < minPoints

\* a plausible slip: the label is raised twice
nextLabel_Twice(lbl) == lbl + 2

\* fit, line 68: label++
nextLabel(lbl) == lbl + 1

RECURSIVE pushSecondary(_, _, _)
\* buildCluster, lines 113-122: returns <<labels, queue>> after the for loop
pushSecondary(secondary, lbls, q) ==
  IF secondary = << >> THEN <<lbls, q>>
  ELSE LET secondaryIndex == Head(secondary)
           secondaryLabel == lbls[secondaryIndex]
       IN IF secondaryLabel = UNKNOWN
          THEN pushSecondary(Tail(secondary),
                             [lbls EXCEPT ![secondaryIndex] = MARKED],
                             Append(q, secondaryIndex))
          ELSE IF secondaryLabel = NOISE
          THEN pushSecondary(Tail(secondary), lbls, Append(q, secondaryIndex))
          ELSE pushSecondary(Tail(secondary), lbls, q)

InitDBSCAN ==
  /\ minPoints \in 0..MaxMinPoints
  /\ radius \in (-1)..MaxRadius
  /\ points = << >>
  /\ nnsDescending = FALSE
  /\ dbPc = "new"
  /\ label = 0 /\ labels = << >> /\ clusters = << >>
  /\ index = 0 /\ queue = << >> /\ bcPoints = {} /\ starts = << >>
  /\ KMIdle /\ RGBIdle /\ EXIdle /\ VVIdle /\ SMIdle /\ INIdle

\* new DBSCAN(minPoints, radius, distanceFunction)
DBSCANConstructor ==
  /\ dbPc = "new"
  /\ dbPc' = IF minPoints < 1 \/ radius < 0 THEN "RangeError" ELSE "constructed"
  /\ UNCHANGED <<minPoints, radius, points, nnsDescending, label, labels,
                 clusters, index, queue, bcPoints, starts>>
  /\ UNCHANGED <<kmVars, rgbVars, exVars, vvVars, smVars, inVars>>

\* fit, lines 46-50: fit is called with a point list, and the neighbour search
\* is built over it
FitBegin ==
  /\ dbPc = "constructed"
  /\ points' \in PointLists
  /\ nnsDescending' \in BOOLEAN
  /\ label' = 0
  /\ labels' = [i \in 1..Len(points') |-> UNKNOWN]
  /\ clusters' = << >>
  /\ index' = 1
  /\ dbPc' = "scan"
  /\ starts' = << >>
  /\ UNCHANGED <<minPoints, radius, queue, bcPoints>>
  /\ UNCHANGED <<kmVars, rgbVars, exVars, vvVars, smVars, inVars>>

\* fit, lines 51-66: one call of the forEach callback, up to the call of
\* buildCluster (whose lines 79-87 set up the queue)
FitVisit ==
  /\ dbPc = "scan"
  /\ index <= Len(points)
  /\ LET neighbors == searchRadius(points, points[index], radius, nnsDescending)
     IN IF labels[index] # UNKNOWN
        THEN /\ index' = index + 1
             /\ UNCHANGED <<labels, queue, bcPoints, dbPc>>
        ELSE IF Len(neighbors) < minPoints
        THEN /\ labels' = [labels EXCEPT ![index] = NOISE]
             /\ index' = index + 1
             /\ UNCHANGED <<queue, bcPoints, dbPc>>
        ELSE /\ labels' = markNeighbors([labels EXCEPT ![index] = label], neighbors)
             /\ queue' = neighbors
             /\ bcPoints' = {}
             /\ dbPc' = "build"
             /\ UNCHANGED index
  /\ UNCHANGED <<minPoints, radius, points, nnsDescending, label, clusters,
                 starts>>
  /\ UNCHANGED <<kmVars, rgbVars, exVars, vvVars, smVars, inVars>>

\* buildCluster, lines 88-123: one iteration of the while loop
BuildStep ==
  /\ dbPc = "build"
  /\ queue # << >>
  /\ LET neighbor == Head(queue)
         rest == Tail(queue)
         secondaryNeighbors ==
           searchRadius(points, points[neighbor], radius, nnsDescending)
         assigned == [labels EXCEPT ![neighbor] = label]
         pushed == pushSecondary(secondaryNeighbors, assigned, rest)
     IN IF alreadyAssigned(labels[neighbor])
        THEN /\ queue' = rest
             /\ UNCHANGED <<labels, bcPoints>>
        ELSE IF labels[neighbor] = NOISE
        THEN /\ labels' = assigned
             /\ bcPoints' = bcPoints \cup {neighbor}
             /\ queue' = rest
        ELSE IF notCore(secondaryNeighbors)
        THEN /\ labels' = assigned
             /\ bcPoints' = bcPoints \cup {neighbor}
             /\ queue' = rest
        ELSE /\ labels' = pushed[1]
             /\ bcPoints' = bcPoints \cup {neighbor}
             /\ queue' = pushed[2]
  /\ UNCHANGED <<minPoints, radius, points, nnsDescending, dbPc, label,
                 clusters, index, starts>>
  /\ UNCHANGED <<kmVars, rgbVars, exVars, vvVars, smVars, inVars>>

\* buildCluster, line 124, and fit, lines 67-68: the cluster is returned,
\* the starting point added to it and the cluster stored under its label
BuildReturn ==
  /\ dbPc = "build"
  /\ queue = << >>
  /\ clusters' = Append(clusters, [id |-> label, points |-> bcPoints \cup {index}])
  /\ starts' = Append(starts, index)
  /\ label' = nextLabel(label)
  /\ index' = index + 1
  /\ bcPoints' = {}
  /\ dbPc' = "scan"
  /\ UNCHANGED <<minPoints, radius, points, nnsDescending, labels, queue>>
  /\ UNCHANGED <<kmVars, rgbVars, exVars, vvVars, smVars, inVars>>

\* fit, line 70
FitReturn ==
  /\ dbPc = "scan"
  /\ index > Len(points)
  /\ dbPc' = "done"
  /\ UNCHANGED <<minPoints, radius, points, nnsDescending, label, labels,
                 clusters, index, queue, bcPoints, starts>>
  /\ UNCHANGED <<kmVars, rgbVars, exVars, vvVars, smVars, inVars>>

NextDBSCAN ==
  \/ DBSCANConstructor
  \/ FitBegin
  \/ FitVisit
  \/ BuildStep
  \/ BuildReturn
  \/ FitReturn

SpecDBSCAN == InitDBSCAN /\ [][NextDBSCAN]_vars

\* fit is one synchronous call on one thread: the forEach callback and the
\* while loop of buildCluster go on to their next step as long as there is
\* one, so a step that stays possible is taken
SpecDBSCANLive == SpecDBSCAN /\ WF_vars(NextDBSCAN)

(***************************************************************************)
(* Points are tuples of integers. The centroid of up to MaxKmPoints points *)
(* is exact when every coordinate is a multiple of KmScale.                *)
(***************************************************************************)
RECURSIVE LcmUpTo(_)
\* the least common multiple of 1..n
LcmUpTo(n) ==
  IF n <= 1 THEN 1
  ELSE LET prev == LcmUpTo(n - 1)
           mult == CHOOSE f \in 1..n : (prev * f) % n = 0
                     /\ \A g \in 1..n : (prev * g) % n = 0 => f <= g
       IN prev * mult

KmScale == LcmUpTo(MaxKmPoints)

RECURSIVE SumOver(_, _)
\* the sum of f[i] over the finite set S of indices
SumOver(f, S) ==
  IF S = {} THEN 0
  ELSE LET i == CHOOSE j \in S : TRUE IN f[i] + SumOver(f, S \ {i})

RECURSIVE squaredSum(_, _, _)
\* squaredEuclidean's loop: the sum over the first d components
squaredSum(point1, point2, d) ==
  IF d = 0 THEN 0
  ELSE LET delta == point2[d] - point1[d]
       IN squaredSum(point1, point2, d - 1) + delta * delta

\* squaredEuclidean(point1, point2)
squaredEuclidean(point1, point2) == squaredSum(point1, point2, Len(point1))

\* new KmeansCluster(index, center, distanceFunction)
newKmeansCluster(id, center) ==
  [id |-> id, centroid |-> center, children |-> {}]

RECURSIVE nearestFrom(_, _, _, _, _)
\* the scan of the centroids from index c on, `best` the nearest so far at
\* distance `bestDistance`; a later centroid wins only when strictly nearer
nearestFrom(centroids, point, c, best, bestDistance) ==
  IF c > Len(centroids) THEN best
  ELSE LET distance == squaredEuclidean(point, centroids[c])
       IN IF distance < bestDistance
          THEN nearestFrom(centroids, point, c + 1, c, distance)
          ELSE nearestFrom(centroids, point, c + 1, best, bestDistance)

\* neighborSearch.searchNearest(point).index over the centroids: the nearest
\* centroid, ties broken by the lowest index
searchNearest(centroids, point) ==
  nearestFrom(centroids, point, 2, 1, squaredEuclidean(point, centroids[1]))

\* the arithmetic mean of the points with the given indices
meanOf(pts, children) ==
  LET any == CHOOSE i \in children : TRUE
  IN [d \in 1..Len(pts[any]) |->
        SumOver([i \in 1..Len(pts) |-> pts[i][d]], children) \div Cardinality(children)]

\* KmeansCluster.updateCentroid(): the new centroid of a cluster (an empty
\* cluster keeps its centroid)
updatedCentroid(pts, cluster) ==
  IF cluster.children = {} THEN cluster.centroid
  ELSE meanOf(pts, cluster.children)

\* a plausible slip: the clusters are not cleared before the points are
\* assigned again
clearClusters_NoClear(cls) == cls

\* iterate, lines 70-74: every cluster is cleared (its centroid is kept)
clearClusters(cls) ==
  [c \in 1..Len(cls) |-> [cls[c] EXCEPT !.children = {}]]

RECURSIVE assignFrom(_, _, _, _)
\* iterate, lines 77-80: the loop over the points from index i on, each point
\* added to the cluster of its nearest centroid
assignFrom(cls, centroids, pts, i) ==
  IF i > Len(pts) THEN cls
  ELSE LET nearest == searchNearest(centroids, pts[i])
       IN assignFrom([cls EXCEPT ![nearest].children = @ \cup {i}],
                     centroids, pts, i + 1)

\* iterate, lines 76-81: the neighbour search is built over the centroids and
\* every point is assigned
assignPoints(cls, pts) ==
  assignFrom(cls, [c \in 1..Len(cls) |-> cls[c].centroid], pts, 1)

\* iterate, lines 83-85: the clusters after updateCentroid
updateCentroids(cls, pts) ==
  [c \in 1..Len(cls) |-> [cls[c] EXCEPT !.centroid = updatedCentroid(pts, cls[c])]]

\* iterate, line 85: what updateCentroid returned for every cluster, the
\* distance between its old and its new centroid
differencesOf(cls, pts) ==
  [c \in 1..Len(cls) |->
     squaredEuclidean(cls[c].centroid, updatedCentroid(pts, cls[c]))]

\* difference < this.tolerance, the tolerance a finite number of quarters
\* and `unit` the model's integer for the coordinate 1.0
belowTolerance(difference, tolerance, unit) ==
  4 * difference < tolerance.q * unit * unit

\* iterate, lines 83-90: the value iterate returns
updatedOf(differences, tolerance, unit) ==
  ~ \E c \in 1..Len(differences) : belowTolerance(differences[c], tolerance, unit)

\* a plausible slip: the comparison is strict
fewPoints_Strict(n, k) == n < k

\* fit, line 49
fewPoints(n, k) == n <= k

\* centerInitializer.initialize(points, k): the sequences of centres the
\* k-means++ initializer can return, min(k, number of distinct points)
\* input points no two of which are equal
initialCenters(pts, k) ==
  LET values == { pts[i] : i \in 1..Len(pts) }
      count == IF k < Cardinality(values) THEN k ELSE Cardinality(values)
  IN { s \in [1..count -> values] : \A a, b \in 1..count : a # b => s[a] # s[b] }

RECURSIVE KmSeqs(_)
\* all sequences of length n of 1-D points with coordinates 0..MaxKmCoord
KmSeqs(n) ==
  IF n = 0 THEN {<< >>}
  ELSE { Append(s, <<c * KmScale>>) : s \in KmSeqs(n - 1), c \in 0..MaxKmCoord }

RECURSIVE KmSortedSeqs(_)
\* those of them in non-decreasing order
KmSortedSeqs(n) ==
  IF n = 0 THEN {<< >>}
  ELSE UNION { { Append(s, <<c * KmScale>>) :
                   c \in (IF Len(s) = 0 THEN 0 ELSE s[Len(s)][1] \div KmScale)..MaxKmCoord } :
               s \in KmSortedSeqs(n - 1) }

\* the point lists fit is called with: the short ones in any order, the
\* longer ones in non-decreasing order
KmPointLists ==
  UNION { KmSortedSeqs(n) : n \in 0..MaxKmPoints }
    \cup UNION { KmSeqs(n) : n \in 0..MaxKmShuffled }

InitKmeans ==
  /\ kmK \in {NaN, Finite(6)} \cup { Finite(4 * k) : k \in 0..MaxK }
  /\ kmMaxIterations \in {NaN, Finite(2)} \cup { Finite(4 * m) : m \in 0..MaxIterations }
  /\ kmTolerance \in {NaN, Infinity, NegInfinity}
                       \cup { Finite(t) : t \in (-1)..MaxToleranceQ }
  /\ kmPoints = << >>
  /\ kmPc = "new"
  /\ kmClusters = << >> /\ kmI = 0 /\ kmSeeded = FALSE
  /\ kmIterateCalls = 0 /\ kmDifferences = << >>
  /\ DBIdle /\ RGBIdle /\ EXIdle /\ VVIdle /\ SMIdle /\ INIdle

\* a plausible slip: k = 0 and a negative tolerance pass
validKmeans_Lax(k, maxIterations, tolerance) ==
  /\ ~ (~isInteger(k) \/ ltZero(k))
  /\ ~ (~isInteger(maxIterations) \/ leqZero(maxIterations))
  /\ ~ (~isFinite(tolerance))

\* new Kmeans(k, maxIterations, tolerance, distanceFunction)
validKmeans(k, maxIterations, tolerance) ==
  /\ ~ (~isInteger(k) \/ leqZero(k))
  /\ ~ (~isInteger(maxIterations) \/ leqZero(maxIterations))
  /\ ~ (~isFinite(tolerance) \/ ltZero(tolerance))

KmeansConstructor ==
  /\ kmPc = "new"
  /\ kmPc' = IF validKmeans(kmK, kmMaxIterations, kmTolerance)
             THEN "constructed" ELSE "TypeError"
  /\ UNCHANGED <<kmK, kmMaxIterations, kmTolerance, kmPoints, kmClusters, kmI,
                 kmSeeded, kmIterateCalls, kmDifferences>>
  /\ UNCHANGED <<dbVars, rgbVars, exVars, vvVars, smVars, inVars>>

\* fit, lines 49-55: no more points than clusters
KmFitFew ==
  /\ kmPc = "constructed"
  /\ \E pts \in KmPointLists :
       /\ fewPoints(Len(pts), intOf(kmK))
       /\ kmPoints' = pts
       /\ kmClusters' = [i \in 1..Len(pts) |->
                           [newKmeansCluster(i - 1, pts[i]) EXCEPT !.children = {i}]]
  /\ kmPc' = "done"
  /\ UNCHANGED <<kmK, kmMaxIterations, kmTolerance, kmI, kmSeeded,
                 kmIterateCalls, kmDifferences>>
  /\ UNCHANGED <<dbVars, rgbVars, exVars, vvVars, smVars, inVars>>

\* fit, lines 57-59: the clusters of the initial centres
KmFitSeed ==
  /\ kmPc = "constructed"
  /\ \E pts \in KmPointLists :
       /\ ~fewPoints(Len(pts), intOf(kmK))
       /\ kmPoints' = pts
       /\ \E centers \in initialCenters(pts, intOf(kmK)) :
            kmClusters' = [c \in 1..Len(centers) |-> newKmeansCluster(c - 1, centers[c])]
  /\ kmSeeded' = TRUE
  /\ kmI' = 0
  /\ kmPc' = "loop"
  /\ UNCHANGED <<kmK, kmMaxIterations, kmTolerance, kmIterateCalls,
                 kmDifferences>>
  /\ UNCHANGED <<dbVars, rgbVars, exVars, vvVars, smVars, inVars>>

\* fit, lines 60-65, and iterate: one pass of the loop body
KmIterate ==
  /\ kmPc = "loop"
  /\ kmI < intOf(kmMaxIterations)
  /\ LET assigned == assignPoints(clearClusters(kmClusters), kmPoints)
         differences == differencesOf(assigned, kmPoints)
         updated == updatedOf(differences, kmTolerance, KmScale)
     IN /\ kmClusters' = updateCentroids(assigned, kmPoints)
        /\ kmDifferences' = differences
        /\ kmIterateCalls' = kmIterateCalls + 1
        /\ IF updated
           THEN kmI' = kmI + 1 /\ kmPc' = "loop"
           ELSE kmI' = kmI /\ kmPc' = "done"
  /\ UNCHANGED <<kmK, kmMaxIterations, kmTolerance, kmPoints, kmSeeded>>
  /\ UNCHANGED <<dbVars, rgbVars, exVars, vvVars, smVars, inVars>>

\* fit, lines 60 and 66: the loop ends with the iterations used up
KmFitReturn ==
  /\ kmPc = "loop"
  /\ kmI >= intOf(kmMaxIterations)
  /\ kmPc' = "done"
  /\ UNCHANGED <<kmK, kmMaxIterations, kmTolerance, kmPoints, kmClusters, kmI,
                 kmSeeded, kmIterateCalls, kmDifferences>>
  /\ UNCHANGED <<dbVars, rgbVars, exVars, vvVars, smVars, inVars>>

NextKmeans ==
  \/ KmeansConstructor
  \/ KmFitFew
  \/ KmFitSeed
  \/ KmIterate
  \/ KmFitReturn

SpecKmeans == InitKmeans /\ [][NextKmeans]_vars

(***************************************************************************)
(* RGB packed colour                                                       *)
(*                                                                         *)
(* A 32-bit value is held as two 16-bit halves, value = hi * 65536 + lo    *)
(* with lo in 0..65535: hi is in 0..65535 for an unsigned 32-bit value and *)
(* in -32768..32767 for a signed one. An opacity is held in units of       *)
(* 1 / 510, so that a / 255 and the values halfway between are inputs.     *)
(***************************************************************************)
MIN_RGB == 0
MAX_RGB == 255

SHIFT_A == 24
SHIFT_R == 16
SHIFT_G == 8
SHIFT_B == 0

\* 2^16, and the model's integer for the opacity 1.0
Half == 256 * 256
OpacityUnit == 2 * MAX_RGB

RECURSIVE pow2(_)
pow2(n) == IF n = 0 THEN 1 ELSE 2 * pow2(n - 1)

\* clamp(value, min, max)
clamp(value, min, max) ==
  IF value < min THEN min ELSE IF value > max THEN max ELSE value

\* Math.round(opacity * MAX_RGB), the opacity in units of 1 / 510: the
\* nearest integer, a half rounded up
roundOpacity(opacity) == (opacity * MAX_RGB * 2 + OpacityUnit) \div (2 * OpacityUnit)

\* x << n on a 32-bit integer x >= 0: the bit pattern of the result
shiftLeft(x, n) ==
  IF n >= 16
  THEN [hi |-> (x * pow2(n - 16)) % Half, lo |-> 0]
  ELSE [hi |-> ((x * pow2(n)) \div Half) % Half, lo |-> (x * pow2(n)) % Half]

RECURSIVE bitOr16(_, _)
\* x | y on 16-bit patterns
bitOr16(x, y) ==
  IF x = 0 THEN y
  ELSE IF y = 0 THEN x
  ELSE (IF x % 2 = 1 \/ y % 2 = 1 THEN 1 ELSE 0) + 2 * bitOr16(x \div 2, y \div 2)

\* x | y on 32-bit patterns
bitOr(x, y) == [hi |-> bitOr16(x.hi, y.hi), lo |-> bitOr16(x.lo, y.lo)]

\* the signed 32-bit integer with the given bit pattern: what | returns
toInt32(w) == [hi |-> IF w.hi % Half >= Half \div 2 THEN (w.hi % Half) - Half
                      ELSE w.hi % Half,
               lo |-> w.lo]

\* w >>> 0: the unsigned 32-bit integer with the same bit pattern
toUint32(w) == [hi |-> w.hi % Half, lo |-> w.lo]

\* (value >> n) & MAX_RGB: value is converted to a signed 32-bit integer,
\* shifted with its sign and masked to a byte
shiftRightByte(value, n) ==
  LET v == toInt32(value)
  IN IF n >= 16
     THEN (v.hi \div pow2(n - 16)) % (MAX_RGB + 1)
     ELSE (v.lo \div pow2(n)) % (MAX_RGB + 1)

\* a plausible slip: the conversion to uint32 (>>> 0) is left out
packWord_Signed(a, r, g, b) ==
  toInt32(bitOr(bitOr(shiftLeft(a, SHIFT_A), shiftLeft(r, SHIFT_R)),
                bitOr(shiftLeft(g, SHIFT_G), shiftLeft(b, SHIFT_B))))

\* encode, line 52
packWord(a, r, g, b) ==
  toUint32(toInt32(bitOr(bitOr(shiftLeft(a, SHIFT_A), shiftLeft(r, SHIFT_R)),
                         bitOr(shiftLeft(g, SHIFT_G), shiftLeft(b, SHIFT_B)))))

\* a plausible slip: the channels are not clamped
RGBencode_NoClamp(color) ==
  packWord(roundOpacity(clamp(color.opacity, 0, OpacityUnit)),
           color.r, color.g, color.b)

\* RGB.encode(color)
RGBencode(color) ==
  LET r == clamp(color.r, MIN_RGB, MAX_RGB)
      g == clamp(color.g, MIN_RGB, MAX_RGB)
      b == clamp(color.b, MIN_RGB, MAX_RGB)
      opacity == clamp(color.opacity, 0, OpacityUnit)
      a == roundOpacity(opacity)
  IN packWord(a, r, g, b)

\* RGB.decode(value)
RGBdecode(value) ==
  LET a == shiftRightByte(value, SHIFT_A)
      r == shiftRightByte(value, SHIFT_R)
      g == shiftRightByte(value, SHIFT_G)
      b == shiftRightByte(value, SHIFT_B)
  IN [r |-> r, g |-> g, b |-> b, opacity |-> (a * OpacityUnit) \div MAX_RGB]

\* the channel values tried: within EdgeSpan of 0, of 128 and of 255
ChannelInputs ==
  ((0 - EdgeSpan)..EdgeSpan) \cup ((128 - EdgeSpan)..(128 + EdgeSpan))
     \cup ((MAX_RGB - EdgeSpan)..(MAX_RGB + EdgeSpan))

\* the opacities tried, in units of 1 / 510: a / 255 and (a + 0.5) / 255
OpacityInputs == { 2 * a + h : a \in ChannelInputs, h \in {0, 1} }

InitRGB ==
  /\ rgbColor \in [r : ChannelInputs, g : ChannelInputs, b : ChannelInputs,
                   opacity : OpacityInputs]
  /\ rgbPacked = NoWord
  /\ rgbDecoded = NoColor
  /\ rgbPc = "new"
  /\ DBIdle /\ KMIdle /\ EXIdle /\ VVIdle /\ SMIdle /\ INIdle

RGBEncodeCall ==
  /\ rgbPc = "new"
  /\ rgbPacked' = RGBencode(rgbColor)
  /\ rgbPc' = "encoded"
  /\ UNCHANGED <<rgbColor, rgbDecoded>>
  /\ UNCHANGED <<dbVars, kmVars, exVars, vvVars, smVars, inVars>>

RGBDecodeCall ==
  /\ rgbPc = "encoded"
  /\ rgbDecoded' = RGBdecode(rgbPacked)
  /\ rgbPc' = "decoded"
  /\ UNCHANGED <<rgbColor, rgbPacked>>
  /\ UNCHANGED <<dbVars, kmVars, exVars, vvVars, smVars, inVars>>

NextRGB ==
  \/ RGBEncodeCall
  \/ RGBDecodeCall

SpecRGB == InitRGB /\ [][NextRGB]_vars

(***************************************************************************)
(* KmeansExtractor                                                         *)
(*                                                                         *)
(* A feature value in [0, 1] is held as an integer in 0..ExUnit. Colour    *)
(* components are rounded down to the grid of 1 / ExGrid, and ExGrid is a  *)
(* multiple of every width, height and cluster size, so that the spatial   *)
(* components and the centroids are exact.                                 *)
(***************************************************************************)
MIN_L == 0
MAX_L == 100
MIN_A == -128
MAX_A == 128
MIN_B == -128
MAX_B == 128

ExGrid == LcmUpTo(MaxPixels)
ExUnit == ExGrid * ExGrid

\* the RGBA bytes of the pixels an image can be made of: opaque red, opaque
\* blue and fully transparent green
PixelInputs ==
  { <<255, 0, 0, 255>>, <<0, 0, 255, 255>>, <<0, 255, 0, 0>> }

RECURSIVE Images(_)
\* the byte buffers of n pixels
Images(n) ==
  IF n = 0 THEN {<< >>}
  ELSE { d \o px : d \in Images(n - 1), px \in PixelInputs }

\* lines 38-43: the colour of the pixel whose bytes start at offset i (0-based)
colorAt(data, i) ==
  [r |-> data[i + 1], g |-> data[i + 2], b |-> data[i + 3],
   opacity |-> (data[i + 4] * OpacityUnit) \div MAX_RGB]

\* this.filter.test(color) for the default filter: a colour passes when it
\* is fully opaque
filterTest(color) == color.opacity >= OpacityUnit

\* a plausible slip: the filter's verdict is ignored
keepPixel_All(color) == TRUE

\* lines 46-48: whether the pixel is kept
keepPixel(color) == filterTest(color)

\* this.lab.decode(packed): the CIE L*a*b* colour of a packed colour,
\* rounded to integers, for the colours of PixelInputs
labDecode(packed) ==
  LET r == packed.hi % 256
      g == packed.lo \div 256
      b == packed.lo % 256
  IN IF r = 255 /\ g = 0 /\ b = 0 THEN [l |-> 53, a |-> 80, b |-> 67]
     ELSE IF r = 0 /\ g = 0 /\ b = 255 THEN [l |-> 32, a |-> 79, b |-> -108]
     ELSE IF r = 0 /\ g = 255 /\ b = 0 THEN [l |-> 88, a |-> -86, b |-> 83]
     ELSE [l |-> 0, a |-> 0, b |-> 0]

\* (value - min) / (max - min), rounded down to the grid
normalized(value, min, max) ==
  (((value - min) * ExGrid) \div (max - min)) * ExGrid

\* a plausible slip: the position of the pixel is left out of its vector
featureAt_NoPosition(data, width, height, i) ==
  LET lab == labDecode(RGBencode(colorAt(data, i)))
  IN << normalized(lab.l, MIN_L, MAX_L),
        normalized(lab.a, MIN_A, MAX_A),
        normalized(lab.b, MIN_B, MAX_B),
        0,
        0 >>

\* lines 50-62: the feature vector of the pixel whose bytes start at offset i
featureAt(data, width, height, i) ==
  LET packed == RGBencode(colorAt(data, i))
      lab == labDecode(packed)
      x == (i \div 4) % width
      y == ((i \div 4) \div width) % height
  IN << normalized(lab.l, MIN_L, MAX_L),
        normalized(lab.a, MIN_A, MAX_A),
        normalized(lab.b, MIN_B, MAX_B),
        (x * ExUnit) \div width,
        (y * ExUnit) \div height >>

RECURSIVE collectPixels(_, _, _, _)
\* lines 36-63: <<pixels, sources>> from offset i on
collectPixels(data, width, height, i) ==
  IF i >= Len(data) THEN << << >>, << >> >>
  ELSE LET rest == collectPixels(data, width, height, i + 4)
       IN IF ~keepPixel(colorAt(data, i))
          THEN rest
          ELSE << <<featureAt(data, width, height, i)>> \o rest[1],
                  <<i \div 4>> \o rest[2] >>

\* a plausible slip: an empty buffer is not told apart
emptyImage_Never(data) == FALSE

\* line 32
emptyImage(data) == Len(data) = 0

\* lines 66-80: the swatch of a cluster; the colour is the L*a*b* of the
\* centroid and the coordinate its position, both in units of 1 / ExUnit
swatchOf(cluster, width, height) ==
  LET pixel == cluster.centroid
  IN [color |-> [l |-> pixel[1] * (MAX_L - MIN_L) + MIN_L * ExUnit,
                 a |-> pixel[2] * (MAX_A - MIN_A) + MIN_A * ExUnit,
                 b |-> pixel[3] * (MAX_B - MIN_B) + MIN_B * ExUnit],
      population |-> Cardinality(cluster.children),
      coordinate |-> [x |-> pixel[4] * width, y |-> pixel[5] * height]]

\* the shapes of the images with 1..MaxPixels pixels
Shapes == { wh \in (1..MaxPixels) \X (1..MaxPixels) : wh[1] * wh[2] <= MaxPixels }

InitExtractor ==
  /\ \/ \E wh \in Shapes :
          /\ exWidth = wh[1] /\ exHeight = wh[2]
          /\ exData \in Images(wh[1] * wh[2])
     \/ exWidth = 0 /\ exHeight = 0 /\ exData = << >>
  /\ exMaxColors \in 1..MaxK
  /\ exMaxIterations \in {1, MaxIterations}
  /\ exMinDifference \in {Finite(0), Finite(MaxToleranceQ)}
  /\ exPc = "called"
  /\ exPixels = << >> /\ exSources = << >> /\ exClusters = << >>
  /\ exI = 0 /\ exClassified = FALSE /\ exResult = << >>
  /\ DBIdle /\ KMIdle /\ RGBIdle /\ VVIdle /\ SMIdle /\ INIdle

\* extract, lines 31-63: the early return for an empty buffer, or the
\* feature vectors of the pixels kept
ExtractPixels ==
  /\ exPc = "called"
  /\ IF emptyImage(exData)
     THEN /\ exResult' = << >>
          /\ exPc' = "returned"
          /\ UNCHANGED <<exPixels, exSources>>
     ELSE LET collected == collectPixels(exData, exWidth, exHeight, 0)
          IN /\ exPixels' = collected[1]
             /\ exSources' = collected[2]
             /\ exPc' = "classify"
             /\ UNCHANGED exResult
  /\ UNCHANGED <<exData, exWidth, exHeight, exMaxColors, exMaxIterations,
                 exMinDifference, exClusters, exI, exClassified>>
  /\ UNCHANGED <<dbVars, kmVars, rgbVars, vvVars, smVars, inVars>>

\* extract, line 65, and Kmeans.fit, lines 49-57: the k-means is called with
\* k = maxColors; few points become one cluster each, or else the clusters
\* are seeded
ExtractClassify ==
  /\ exPc = "classify"
  /\ IF fewPoints(Len(exPixels), exMaxColors)
     THEN /\ exClusters' = [i \in 1..Len(exPixels) |->
                              [newKmeansCluster(i - 1, exPixels[i]) EXCEPT !.children = {i}]]
          /\ exPc' = "swatches"
     ELSE /\ \E centers \in initialCenters(exPixels, exMaxColors) :
               exClusters' = [c \in 1..Len(centers) |-> newKmeansCluster(c - 1, centers[c])]
          /\ exPc' = "loop"
  /\ exI' = 0
  /\ exClassified' = TRUE
  /\ UNCHANGED <<exData, exWidth, exHeight, exMaxColors, exMaxIterations,
                 exMinDifference, exPixels, exSources, exResult>>
  /\ UNCHANGED <<dbVars, kmVars, rgbVars, vvVars, smVars, inVars>>

\* Kmeans.fit, lines 60-65, and iterate: one pass of the loop body
ExtractIterate ==
  /\ exPc = "loop"
  /\ exI < exMaxIterations
  /\ LET assigned == assignPoints(clearClusters(exClusters), exPixels)
         updated == updatedOf(differencesOf(assigned, exPixels), exMinDifference, ExUnit)
     IN /\ exClusters' = updateCentroids(assigned, exPixels)
        /\ IF updated
           THEN exI' = exI + 1 /\ exPc' = "loop"
           ELSE exI' = exI /\ exPc' = "swatches"
  /\ UNCHANGED <<exData, exWidth, exHeight, exMaxColors, exMaxIterations,
                 exMinDifference, exPixels, exSources, exClassified, exResult>>
  /\ UNCHANGED <<dbVars, kmVars, rgbVars, vvVars, smVars, inVars>>

\* Kmeans.fit, lines 60 and 66: the loop ends with the iterations used up
ExtractLoopEnd ==
  /\ exPc = "loop"
  /\ exI >= exMaxIterations
  /\ exPc' = "swatches"
  /\ UNCHANGED <<exData, exWidth, exHeight, exMaxColors, exMaxIterations,
                 exMinDifference, exPixels, exSources, exClusters, exI,
                 exClassified, exResult>>
  /\ UNCHANGED <<dbVars, kmVars, rgbVars, vvVars, smVars, inVars>>

\* extract, lines 66-80: one swatch per cluster
ExtractSwatches ==
  /\ exPc = "swatches"
  /\ exResult' = [c \in 1..Len(exClusters) |-> swatchOf(exClusters[c], exWidth, exHeight)]
  /\ exPc' = "returned"
  /\ UNCHANGED <<exData, exWidth, exHeight, exMaxColors, exMaxIterations,
                 exMinDifference, exPixels, exSources, exClusters, exI,
                 exClassified>>
  /\ UNCHANGED <<dbVars, kmVars, rgbVars, vvVars, smVars, inVars>>

NextExtractor ==
  \/ ExtractPixels
  \/ ExtractClassify
  \/ ExtractIterate
  \/ ExtractLoopEnd
  \/ ExtractSwatches

SpecExtractor == InitExtractor /\ [][NextExtractor]_vars

(***************************************************************************)
(* Color and VividThemeStrategy                                            *)
(*                                                                         *)
(* The chroma sqrt(a^2 + b^2) is held by its square a^2 + b^2, and a       *)
(* normalized chroma by its square in units of 1 / MAX_CHROMA^2; both are  *)
(* never negative, so the order of the squares is the order of the values. *)
(***************************************************************************)
MIN_CHROMA == 0
MAX_CHROMA == 180
\* vivid.ts MIN_CHROMA = 0.35, in hundredths
VividMinChroma == 35

\* CIELabSpace.clampL, clampA, clampB
clampL(l) == clamp(l, MIN_L, MAX_L)
clampA(a) == clamp(a, MIN_A, MAX_A)
clampB(b) == clamp(b, MIN_B, MAX_B)

\* a plausible slip: a and b are kept as given
newColor_NoClamp(lab) == [l |-> clampL(lab.l), a |-> lab.a, b |-> lab.b]

\* Color constructor, lines 28-30
newColor(lab) == [l |-> clampL(lab.l), a |-> clampA(lab.a), b |-> clampB(lab.b)]

\* Color.chroma(), squared
chromaSq(color) == color.a * color.a + color.b * color.b

\* normalize(value, MIN_CHROMA, max) for value >= MIN_CHROMA, squared and in
\* units of 1 / max^2: (value - min) / (max - min), limited to 1 when the
\* function clamps
normalizeSq(valueSq, max, clamps) ==
  IF clamps /\ valueSq > (max - MIN_CHROMA) * (max - MIN_CHROMA)
  THEN (max - MIN_CHROMA) * (max - MIN_CHROMA)
  ELSE valueSq

\* VividThemeStrategy.score, squared
vividScoreSq(color, clamps) == normalizeSq(chromaSq(color), MAX_CHROMA, clamps)

\* VividThemeStrategy.filter: normalized >= MIN_CHROMA
vividFilter(color, clamps) ==
  100 * 100 * normalizeSq(chromaSq(color), MAX_CHROMA, clamps)
    >= VividMinChroma * VividMinChroma * MAX_CHROMA * MAX_CHROMA

\* the numbers given as l
LInputs == {NaN} \cup { Finite(4 * v) : v \in {MIN_L - LabSpan, 50, MAX_L + LabSpan} }

\* the numbers given as a and as b
ABInputs ==
  {Infinity} \cup
    { Finite(4 * v) : v \in ((MIN_A - LabSpan)..(MIN_A + LabSpan)) \cup {-63, 0, 45, 63}
                              \cup ((MAX_A - LabSpan)..(MAX_A + LabSpan)) }

InitVivid ==
  /\ vvLab \in [l : LInputs, a : ABInputs, b : ABInputs]
  /\ vvNormalizeClamps \in BOOLEAN
  /\ vvColor = NoLab /\ vvScoreSq = 0 /\ vvPasses = FALSE
  /\ vvPc = "new"
  /\ DBIdle /\ KMIdle /\ RGBIdle /\ EXIdle /\ SMIdle /\ INIdle

\* Color constructor, lines 24-31 (reached through Color.fromLAB)
ColorConstructor ==
  /\ vvPc = "new"
  /\ IF isFinite(vvLab.l) /\ isFinite(vvLab.a) /\ isFinite(vvLab.b)
     THEN /\ vvColor' = newColor([l |-> intOf(vvLab.l), a |-> intOf(vvLab.a),
                                   b |-> intOf(vvLab.b)])
          /\ vvPc' = "color"
     ELSE /\ vvPc' = "AssertionError"
          /\ UNCHANGED vvColor
  /\ UNCHANGED <<vvLab, vvNormalizeClamps, vvScoreSq, vvPasses>>
  /\ UNCHANGED <<dbVars, kmVars, rgbVars, exVars, smVars, inVars>>

\* VividThemeStrategy.score(swatch) for a swatch of the colour
VividScore ==
  /\ vvPc = "color"
  /\ vvScoreSq' = vividScoreSq(vvColor, vvNormalizeClamps)
  /\ vvPc' = "scored"
  /\ UNCHANGED <<vvLab, vvColor, vvNormalizeClamps, vvPasses>>
  /\ UNCHANGED <<dbVars, kmVars, rgbVars, exVars, smVars, inVars>>

\* VividThemeStrategy.filter(swatch) for the same swatch
VividFilter ==
  /\ vvPc = "scored"
  /\ vvPasses' = vividFilter(vvColor, vvNormalizeClamps)
  /\ vvPc' = "filtered"
  /\ UNCHANGED <<vvLab, vvColor, vvNormalizeClamps, vvScoreSq>>
  /\ UNCHANGED <<dbVars, kmVars, rgbVars, exVars, smVars, inVars>>

NextVivid ==
  \/ ColorConstructor
  \/ VividScore
  \/ VividFilter

SpecVivid == InitVivid /\ [][NextVivid]_vars

(***************************************************************************)
(* FarthestPointSampling and RandomSampling                                *)
(*                                                                         *)
(* The data points are 1-D integers and an item is told apart by its       *)
(* index, so that equal points are still different items.                  *)
(***************************************************************************)
RECURSIVE SmSeqs(_)
\* all sequences of length n over 0..MaxSmCoord
SmSeqs(n) ==
  IF n = 0 THEN {<< >>}
  ELSE { Append(s, c) : s \in SmSeqs(n - 1), c \in 0..MaxSmCoord }

\* the indices a sequence holds
indicesIn(selected) == { selected[i] : i \in 1..Len(selected) }

\* a plausible slip: the points sampled already stay candidates
candidates_WithSelected(pts, selected) == 1..Len(pts)

\* the points not sampled yet
candidates(pts, selected) == (1..Len(pts)) \ indicesIn(selected)

\* the distance of the point c to the nearest point sampled
minDistance(pts, selected, c) ==
  CHOOSE d \in { euclidean(pts[c], pts[j]) : j \in indicesIn(selected) } :
    \A j \in indicesIn(selected) : d <= euclidean(pts[c], pts[j])

\* the candidate farthest from the points sampled, the lowest index on a tie
farthestIndex(pts, selected) ==
  CHOOSE c \in candidates(pts, selected) :
    \A o \in candidates(pts, selected) :
      \/ minDistance(pts, selected, c) > minDistance(pts, selected, o)
      \/ /\ minDistance(pts, selected, c) = minDistance(pts, selected, o)
         /\ c <= o

\* the indices 1..n in order
allIndices(n) == [i \in 1..n |-> i]

InitSampling ==
  /\ smKind \in {"fps", "random"}
  /\ smPoints \in UNION { SmSeqs(n) : n \in 0..MaxSmPoints }
  /\ smN \in (-1)..(MaxSmPoints + 1)
  /\ smSizeFirst \in BOOLEAN
  /\ smSelected = << >>
  /\ smPc = "called"
  /\ DBIdle /\ KMIdle /\ RGBIdle /\ EXIdle /\ VVIdle /\ INIdle

\* sample(points, n): the two tests on n, in the order the implementation
\* has them
SampleCall ==
  /\ smPc = "called"
  /\ IF smN <= 0 /\ ~(smSizeFirst /\ smN >= Len(smPoints))
     THEN smPc' = "RangeError" /\ UNCHANGED smSelected
     ELSE IF smN >= Len(smPoints)
     THEN smPc' = "returned" /\ smSelected' = allIndices(Len(smPoints))
     ELSE smPc' = "sampling" /\ UNCHANGED smSelected
  /\ UNCHANGED <<smKind, smPoints, smN, smSizeFirst>>
  /\ UNCHANGED <<dbVars, kmVars, rgbVars, exVars, vvVars, inVars>>

\* one more point is sampled: the first one and every random one is any
\* candidate, a later one of the farthest-point selection is the farthest
SampleStep ==
  /\ smPc = "sampling"
  /\ Len(smSelected) < smN
  /\ IF smKind = "fps" /\ Len(smSelected) > 0
     THEN smSelected' = Append(smSelected, farthestIndex(smPoints, smSelected))
     ELSE \E c \in candidates(smPoints, smSelected) :
            smSelected' = Append(smSelected, c)
  /\ UNCHANGED <<smKind, smPoints, smN, smSizeFirst, smPc>>
  /\ UNCHANGED <<dbVars, kmVars, rgbVars, exVars, vvVars, inVars>>

\* n points are sampled and returned
SampleReturn ==
  /\ smPc = "sampling"
  /\ Len(smSelected) >= smN
  /\ smPc' = "returned"
  /\ UNCHANGED <<smKind, smPoints, smN, smSizeFirst, smSelected>>
  /\ UNCHANGED <<dbVars, kmVars, rgbVars, exVars, vvVars, inVars>>

NextSampling ==
  \/ SampleCall
  \/ SampleStep
  \/ SampleReturn

SpecSampling == InitSampling /\ [][NextSampling]_vars

(***************************************************************************)
(* KmeansPlusPlusInitializer                                               *)
(***************************************************************************)

\* initialize's test of k: a positive integer
validCount(k) == ~ (~isInteger(k) \/ leqZero(k))

\* D(p)^2: the squared distance of a point to the nearest centre chosen
nearestCenterDistance(centers, point) ==
  squaredEuclidean(point, centers[searchNearest(centers, point)])

\* a plausible slip: a point at distance 0 of a centre can still be drawn
canDraw_Any(centers, point) == TRUE

\* whether a point can be drawn as the next centre: the first one always,
\* a later one with a probability proportional to D(p)^2, so never at D = 0
canDraw(centers, point) ==
  Len(centers) = 0 \/ nearestCenterDistance(centers, point) > 0

\* the indices of the points that can be drawn
drawable(pts, centers) == { i \in 1..Len(pts) : canDraw(centers, pts[i]) }

InitInitializer ==
  /\ inPoints \in KmPointLists
  /\ inK \in {NaN, Infinity, Finite(6), Finite(-4)}
                \cup { Finite(4 * k) : k \in 0..(MaxK + 1) }
  /\ inCenters = << >> /\ inClusters = << >>
  /\ inPc = "called"
  /\ DBIdle /\ KMIdle /\ RGBIdle /\ EXIdle /\ VVIdle /\ SMIdle

\* initialize(points, k): the test of k
InitializeCall ==
  /\ inPc = "called"
  /\ inPc' = IF validCount(inK) THEN "choosing" ELSE "TypeError"
  /\ UNCHANGED <<inPoints, inK, inCenters, inClusters>>
  /\ UNCHANGED <<dbVars, kmVars, rgbVars, exVars, vvVars, smVars>>

\* one more centre is drawn
InitializeChoose ==
  /\ inPc = "choosing"
  /\ Len(inCenters) < intOf(inK)
  /\ \E i \in drawable(inPoints, inCenters) :
       inCenters' = Append(inCenters, inPoints[i])
  /\ UNCHANGED <<inPoints, inK, inClusters, inPc>>
  /\ UNCHANGED <<dbVars, kmVars, rgbVars, exVars, vvVars, smVars>>

\* k centres are chosen, or no point is left that can be drawn
InitializeReturn ==
  /\ inPc = "choosing"
  /\ Len(inCenters) >= intOf(inK) \/ drawable(inPoints, inCenters) = {}
  /\ inPc' = "returned"
  /\ UNCHANGED <<inPoints, inK, inCenters, inClusters>>
  /\ UNCHANGED <<dbVars, kmVars, rgbVars, exVars, vvVars, smVars>>

\* Kmeans.fit, lines 49 and 57-59: with more than k points, one cluster per
\* centre returned
FitSeedClusters ==
  /\ inPc = "returned"
  /\ ~fewPoints(Len(inPoints), intOf(inK))
  /\ inClusters' = [c \in 1..Len(inCenters) |-> newKmeansCluster(c - 1, inCenters[c])]
  /\ inPc' = "seeded"
  /\ UNCHANGED <<inPoints, inK, inCenters>>
  /\ UNCHANGED <<dbVars, kmVars, rgbVars, exVars, vvVars, smVars>>

NextInitializer ==
  \/ InitializeCall
  \/ InitializeChoose
  \/ InitializeReturn
  \/ FitSeedClusters

SpecInitializer == InitInitializer /\ [][NextInitializer]_vars

(***************************************************************************)
(* DBSCAN: what fit returned                                               *)
(***************************************************************************)

\* the returned clusters that hold the point with index i
clustersOf(i) == { c \in 1..Len(clusters) : i \in clusters[c].points }

\* the point with index i is a core point: its neighbourhood, itself
\* included, has at least minPoints points
isCore(i) ==
  Len(searchRadius(points, points[i], radius, nnsDescending)) >= minPoints

\* the point with index i lies within the radius of a core point
nearCore(i) ==
  \E j \in 1..Len(points) :
    isCore(j) /\ euclidean(points[i], points[j]) <= radius

\* C1: after fit returns, no input point (by index) is a member of more than
\* one returned cluster; a point of the first cluster is in no later cluster.
C1_AtMostOneCluster ==
  dbPc = "done" => \A i \in 1..Len(points) : Cardinality(clustersOf(i)) <= 1

\* C6: after fit, a point with fewer than minPoints neighbours within the
\* radius that lies within the radius of no core point is in no returned
\* cluster, and no point left labelled NOISE is in a returned cluster.
C6_NoiseAbsent ==
  dbPc = "done" =>
    \A i \in 1..Len(points) :
      /\ (~isCore(i) /\ ~nearCore(i)) => clustersOf(i) = {}
      /\ labels[i] = NOISE => clustersOf(i) = {}

\* C6's case: fit returned a cluster and left out a point that is neither a
\* core point nor near one, although it is near a point of a cluster
C6_Witness ==
  /\ dbPc = "done"
  /\ Len(clusters) >= 1
  /\ \E i \in 1..Len(points) :
       /\ ~isCore(i) /\ ~nearCore(i) /\ labels[i] = NOISE
       /\ \E j \in 1..Len(points) :
            /\ clustersOf(j) # {}
            /\ euclidean(points[i], points[j]) <= radius

(***************************************************************************)
(* Kmeans: what the constructor and fit did                                *)
(***************************************************************************)

\* a positive integer, said without the constructor's tests
positiveInteger(x) == x.kind = "finite" /\ \E n \in 1..(x.q) : x.q = 4 * n

\* a finite number that is not negative
finiteNonNegative(x) == x.kind = "finite" /\ x.q >= 0

\* the clusters of kmClusters that hold the point with index i
kmClustersOf(i) == { c \in 1..Len(kmClusters) : i \in kmClusters[c].children }

\* the clusters of kmClusters that hold a point
kmNonEmpty == { c \in 1..Len(kmClusters) : kmClusters[c].children # {} }

\* C2: fit returns at most k non-empty clusters, and every input point is a
\* member of exactly one returned cluster.
C2_Partition ==
  kmPc = "done" =>
    /\ Cardinality(kmNonEmpty) <= intOf(kmK)
    /\ \A i \in 1..Len(kmPoints) : Cardinality(kmClustersOf(i)) = 1

\* C2's case: more points than clusters, at least two passes of iterate and
\* at least two clusters that hold points
C2_Witness ==
  /\ kmPc = "done"
  /\ Len(kmPoints) > intOf(kmK)
  /\ kmIterateCalls >= 2
  /\ Cardinality(kmNonEmpty) >= 2

\* C3: with n > k, the loop stops before maxIterations passes only after a
\* pass in which every cluster's centroid moved by less than the tolerance.
C3_StopsOnlyWhenAllConverged ==
  (kmPc = "done" /\ kmSeeded /\ kmIterateCalls < intOf(kmMaxIterations)) =>
    \A c \in 1..Len(kmDifferences) :
      belowTolerance(kmDifferences[c], kmTolerance, KmScale)

\* C4: with n <= k, fit seeds nothing, iterates nothing and returns n
\* clusters in input order, the i-th with the i-th point as its centroid and
\* as its only member.
C4_FewPointsSingletons ==
  (kmPc = "done" /\ Len(kmPoints) <= intOf(kmK)) =>
    /\ ~kmSeeded
    /\ kmIterateCalls = 0
    /\ Len(kmClusters) = Len(kmPoints)
    /\ \A i \in 1..Len(kmPoints) :
         /\ kmClusters[i].id = i - 1
         /\ kmClusters[i].centroid = kmPoints[i]
         /\ kmClusters[i].children = {i}

\* C4's case: fit returned for exactly k points, k at least 2
C4_Witness ==
  /\ kmPc = "done"
  /\ Len(kmPoints) = intOf(kmK)
  /\ Len(kmPoints) >= 2
  /\ Len(kmClusters) = 2

\* C5: the constructor fails with a TypeError, before any clustering,
\* exactly when k or maxIterations is not a positive integer or the
\* tolerance is NaN, not finite or negative.
C5_ConstructorValidates ==
  /\ kmPc = "TypeError" =>
       /\ ~ ( /\ positiveInteger(kmK)
              /\ positiveInteger(kmMaxIterations)
              /\ finiteNonNegative(kmTolerance) )
       /\ kmClusters = << >> /\ ~kmSeeded /\ kmIterateCalls = 0
  /\ kmPc \in {"constructed", "loop", "done"} =>
       /\ positiveInteger(kmK)
       /\ positiveInteger(kmMaxIterations)
       /\ finiteNonNegative(kmTolerance)

\* C5's case: the constructor rejected a tolerance of NaN although k and
\* maxIterations were positive integers
C5_Witness ==
  /\ kmPc = "TypeError"
  /\ positiveInteger(kmK)
  /\ positiveInteger(kmMaxIterations)
  /\ kmTolerance = NaN

(***************************************************************************)
(* RGB: what encode and decode returned                                    *)
(***************************************************************************)

\* a channel or alpha byte
isByte(x) == x \in 0..255

\* the value of [0, 255] nearest to x
inByteRange(x) == IF x < 0 THEN 0 ELSE IF x > 255 THEN 255 ELSE x

\* C10: the packed colour is a 32-bit unsigned AARRGGBB word: it lies in
\* [0, 2^32) for every input, holds the clamped channels and the clamped,
\* rounded opacity, and for r, g, b, a in [0, 255] decode(encode({r, g, b,
\* opacity: a / 255})) returns the same r, g, b and opacity a / 255.
C10_PackedRoundTrip ==
  /\ rgbPc \in {"encoded", "decoded"} =>
       /\ rgbPacked.hi \in 0..65535 /\ rgbPacked.lo \in 0..65535
       /\ LET a == rgbPacked.hi \div 256
              r == rgbPacked.hi % 256
              g == rgbPacked.lo \div 256
              b == rgbPacked.lo % 256
          IN /\ r = inByteRange(rgbColor.r)
             /\ g = inByteRange(rgbColor.g)
             /\ b = inByteRange(rgbColor.b)
             /\ (rgbColor.opacity <= 0 => a = 0)
             /\ (rgbColor.opacity >= 510 => a = 255)
             /\ (rgbColor.opacity \in 0..510 /\ rgbColor.opacity % 2 = 0
                   => 2 * a = rgbColor.opacity)
  /\ ( /\ rgbPc = "decoded"
       /\ isByte(rgbColor.r) /\ isByte(rgbColor.g) /\ isByte(rgbColor.b)
       /\ rgbColor.opacity \in 0..510 /\ rgbColor.opacity % 2 = 0 )
     => rgbDecoded = rgbColor

\* C10's case: a colour with all channels in range and the top alpha bit
\* set went through encode and decode
C10_Witness ==
  /\ rgbPc = "decoded"
  /\ rgbColor = [r |-> 255, g |-> 128, b |-> 1, opacity |-> 510]
  /\ rgbPacked = [hi |-> 65535, lo |-> 32769]
  /\ rgbDecoded = rgbColor

(***************************************************************************)
(* KmeansExtractor: what extract returned                                  *)
(***************************************************************************)

\* the number of pixels of the image
pixelCount == Len(exData) \div 4

\* the pixel with number p (0-based) is fully opaque
opaque(p) == exData[4 * p + 4] = 255

\* every pixel of the image is fully opaque and has the colour of the first
solidImage ==
  /\ pixelCount >= 1
  /\ \A p \in 0..(pixelCount - 1) :
       /\ opaque(p)
       /\ \A o \in 1..3 : exData[4 * p + o] = exData[o]

\* the sum of the populations of the swatches returned
totalPopulation ==
  SumOver([c \in 1..Len(exResult) |-> exResult[c].population], 1..Len(exResult))

\* the clusters that hold the pixel with number p
swatchesOf(p) ==
  { c \in 1..Len(exClusters) :
      \E m \in exClusters[c].children : exSources[m] = p }

distinctIndices(selected) ==
  \A i, j \in 1..Len(selected) : i # j => selected[i] # selected[j]

\* C12: sampling n items from a collection of size s fails with a RangeError
\* when n <= 0 (and s >= 1), returns all s items when n >= s (and n >= 1),
\* and returns exactly n distinct items of the collection when 1 <= n < s.
C12_SampleSize ==
  /\ (smN <= 0 /\ Len(smPoints) >= 1 /\ smPc # "called") =>
        smPc = "RangeError" /\ smSelected = << >>
  /\ (smN >= 1 /\ smPc # "called") => smPc \in {"sampling", "returned"}
  /\ (smN >= 1 /\ smN >= Len(smPoints) /\ smPc # "called") =>
        /\ smPc = "returned"
        /\ Len(smSelected) = Len(smPoints)
        /\ indicesIn(smSelected) = 1..Len(smPoints)
  /\ (smN >= 1 /\ smN < Len(smPoints) /\ smPc = "returned") =>
        /\ Len(smSelected) = smN
        /\ indicesIn(smSelected) \subseteq 1..Len(smPoints)
        /\ distinctIndices(smSelected)

\* C12's case: the farthest-point selection returned 2 of 3 equal points
C12_Witness ==
  /\ smKind = "fps"
  /\ smPc = "returned"
  /\ smPoints = <<1, 1, 1>>
  /\ smN = 2
  /\ Len(smSelected) = 2
  /\ distinctIndices(smSelected)

(***************************************************************************)
(* KmeansPlusPlusInitializer: what initialize returned                     *)
(***************************************************************************)

\* the points of the list, equal points counted once
uniquePoints(pts) == { pts[i] : i \in 1..Len(pts) }

\* the smaller of two numbers
minOf(x, y) == IF x < y THEN x ELSE y

\* C13: initialize(points, k) throws a TypeError when k is not a positive
\* integer; otherwise it returns exactly min(k, number of unique points)
\* centres, each one of the input points and no two the same point; and
\* Kmeans.fit with n > k distinct points starts from exactly k clusters.
C13_InitialCenters ==
  /\ inPc = "TypeError" <=> (inPc # "called" /\ ~positiveInteger(inK))
  /\ inPc \in {"returned", "seeded"} =>
       /\ Len(inCenters) = minOf(intOf(inK), Cardinality(uniquePoints(inPoints)))
       /\ \A c \in 1..Len(inCenters) : inCenters[c] \in uniquePoints(inPoints)
       /\ \A c, e \in 1..Len(inCenters) : c # e => inCenters[c] # inCenters[e]
       /\ inCenters \in initialCenters(inPoints, intOf(inK))
  /\ ( /\ inPc = "seeded"
       /\ Cardinality(uniquePoints(inPoints)) = Len(inPoints) )
     => /\ Len(inClusters) = intOf(inK)
        /\ \A c \in 1..Len(inClusters) :
             /\ inClusters[c].id = c - 1
             /\ inClusters[c].centroid = inCenters[c]
             /\ inClusters[c].children = {}

\* C13's case: with k = 3 and two different points among four, two centres
\* came back and fit made two clusters of them
C13_Witness ==
  /\ inPc = "seeded"
  /\ inK = Finite(4 * 3)
  /\ Len(inPoints) = 4
  /\ Cardinality(uniquePoints(inPoints)) = 2
  /\ Len(inCenters) = 2
  /\ Len(inClusters) = 2

\* C13's other case: fit seeded exactly k = 2 clusters from 3 distinct points
C13_SeededK ==
  /\ inPc = "seeded"
  /\ inK = Finite(4 * 2)
  /\ Len(inPoints) = 3
  /\ Cardinality(uniquePoints(inPoints)) = 3
  /\ Len(inClusters) = 2

(***************************************************************************)
(* DBSCAN: the order of the cluster ids, the expansion and the labels      *)
(***************************************************************************)

\* C14: the clusters fit stores, and returns, carry the ids 0, 1, 2, ...
\* with no gaps, in that order, and for i < j the core point that started
\* cluster i has a smaller input index than the one that started cluster j.
C14_IdsInDiscoveryOrder ==
  dbPc \in {"scan", "build", "done"} =>
    /\ label = Len(clusters)
    /\ Len(starts) = Len(clusters)
    /\ \A c \in 1..Len(clusters) :
         /\ clusters[c].id = c - 1
         /\ isCore(starts[c])
         /\ starts[c] \in clusters[c].points
    /\ \A c, e \in 1..Len(clusters) : c < e => starts[c] < starts[e]

\* C14's case: fit returned three clusters
C14_Witness ==
  /\ dbPc = "done"
  /\ Len(clusters) = 3
  /\ clusters[3].id = 2
  /\ starts[1] < starts[2] /\ starts[2] < starts[3]

\* C15: in the expansion, a popped point whose label is NOISE is relabelled
\* into the current cluster as a boundary point and nothing is enqueued from
\* it; only a point that was UNKNOWN or MARKED when popped can cause points
\* to be enqueued, and only if its neighbourhood has at least minPoints
\* points.
C15_OnlyUnvisitedCoreExpands ==
  [][ (dbPc = "build" /\ queue # << >>) =>
        LET neighbor == Head(queue)
        IN /\ labels[neighbor] = NOISE =>
                /\ labels' = [labels EXCEPT ![neighbor] = label]
                /\ bcPoints' = bcPoints \cup {neighbor}
                /\ queue' = Tail(queue)
           /\ queue' # Tail(queue) =>
                /\ labels[neighbor] \in {UNKNOWN, MARKED}
                /\ isCore(neighbor) ]_vars

\* C16: fit terminates on every finite input, and on return no point is
\* UNKNOWN or MARKED, every label is NOISE or the id of a returned cluster
\* (0 <= id < number of clusters), and every point whose label is a cluster
\* id is a member of that cluster.
C16_FitTerminatesLabelled ==
  /\ (dbPc = "scan") ~> (dbPc = "done")
  /\ [](dbPc = "done" =>
         \A i \in 1..Len(points) :
            /\ labels[i] \notin {UNKNOWN, MARKED}
            /\ \/ labels[i] = NOISE
               \/ /\ 0 <= labels[i] /\ labels[i] < Len(clusters)
                  /\ clusters[labels[i] + 1].id = labels[i]
                  /\ i \in clusters[labels[i] + 1].points)

\* fit has returned two clusters and noise: a point that was MARKED during
\* the expansion ends in cluster 1, a point that had too few neighbours is
\* NOISE
C16_Witness ==
  /\ dbPc = "done" /\ Len(clusters) = 2
  /\ \E i, j, n \in 1..Len(points) :
       /\ labels[i] = 0 /\ i \in clusters[1].points
       /\ labels[j] = 1 /\ j \in clusters[2].points /\ j # starts[2]
       /\ labels[n] = NOISE

====
